---- MODULE Spec2Model ----
(***************************************************************************)
(* A model of the brute-force Sudoku solver (src/solvers.rs) and of the    *)
(* grid model it relies on (src/sudoku.rs).                                *)
(*                                                                         *)
(* A grid is the record [rows |-> r] with r[y][x] the cell in row y and    *)
(* column x, both 0-indexed as in the source.  A cell of type Option<u8>   *)
(* is modelled by an integer: None is the value -1 and Some(v) is v.       *)
(***************************************************************************)
EXTENDS Integers, Sequences, FiniteSets, TLC

VARIABLES
    entry,         \* which entry point of the Solver trait was called
    input,         \* the `sudoku` argument of the call
    pc,            \* position of the call in run_with_callback / run
    best,          \* the local `best: (f64, Sudoku)`
    search_space,  \* the local `search_space: Vec<Sudoku>`
    attempt,       \* the local `attempt` bound by the `while let`
    ret,           \* what run_with_callback returned
    solved,        \* what run returned (after its two unwraps)
    nPops,         \* history: number of candidates popped so far
    cbLog,         \* history: what each callback invocation returned, in order
    callsThis,     \* history: callback invocations on the current attempt
    bookThis,      \* history: best-attempt bookkeeping done for the attempt
    pushedThis,    \* history: children pushed while expanding the attempt
    maxWf,         \* history: largest score of a well-formed popped attempt
    cbArg,         \* history: the grid the last callback invocation was given
    G,             \* grid model: the grid under test
    edits,         \* grid model: number of cells overwritten so far
    wfRes,         \* grid model: last result of well_formed(G)
    finRes,        \* grid model: last result of finished(G)
    scoreRes,      \* grid model: last result of score(G)
    cvRes,         \* grid model: last results of cell_valid on G, per probe
    fmt,           \* parsers: the FileType the file is parsed as, or "auto"
    ext,           \* parsers: the extension of the file's path
    lines,         \* parsers: the lines written to the file, in order
    raw,           \* parsers: the text read from the file
    nGood,         \* parsers: number of regular lines written so far
    nOdd,          \* parsers: number of irregular lines written so far
    pres,          \* parsers: what the parser returned for `raw`
    sudokus,       \* engine: the sudokus given to Engine::solve
    given,         \* engine: the sudokus handed to the solver so far
    results,       \* engine: what the solver returned for each of them
    solutions,     \* engine: the local `solutions: Vec<Sudoku>`
    eret           \* engine: what Engine::solve returned

vars == <<entry, input, pc, best, search_space, attempt, ret, solved,
          nPops, cbLog, callsThis, bookThis, pushedThis, maxWf, cbArg,
          G, edits, wfRes, finRes, scoreRes, cvRes,
          fmt, ext, lines, raw, nGood, nOdd, pres,
          sudokus, given, results, solutions, eret>>

solverVars == <<entry, input, pc, best, search_space, attempt, ret, solved,
                nPops, cbLog, callsThis, bookThis, pushedThis, maxWf, cbArg>>

gridVars == <<G, edits, wfRes, finRes, scoreRes, cvRes>>

parseVars == <<fmt, ext, lines, raw, nGood, nOdd, pres>>

engineVars == <<sudokus, given, results, solutions, eret>>

----------------------------------------------------------------------------
(* Program constants *)

\* Option::None of a cell
None == -1

\* side of the grid: the `9` of `[[Option<u8>; 9]; 9]` and of `0..9`
Side == 9

\* side of a box: the `3` of `x % 3`, `x / 3`
BoxSide == 3

\* the cell count `81.0` that score() divides by
CellCount == 81

Idx == 0 .. (Side - 1)

Min(S) == CHOOSE m \in S : \A n \in S : m <= n
Max(S) == CHOOSE m \in S : \A n \in S : n <= m

----------------------------------------------------------------------------
(* src/sudoku.rs *)

\* Sudoku::empty()
empty == [rows |-> [y \in Idx |-> [x \in Idx |-> None]]]

\* `next_attempt.rows[y][x] = Some(v)` on a copy of s
WithCell(s, x, y, v) == [rows |-> [s.rows EXCEPT ![y][x] = v]]

\* Result<(), InvalidReason>
OkUnit == [tag |-> "Ok"]
EmptyCell(c) == [tag |-> "EmptyCell", cell |-> c]
RowConflict(c, d) == [tag |-> "RowConflict", cell |-> c, conflict |-> d]
ColConflict(c, d) == [tag |-> "ColConflict", cell |-> c, conflict |-> d]
BoxConflict(c, d) == [tag |-> "BoxConflict", cell |-> c, conflict |-> d]

\* score that counts the blank cells
score_Blank(s) == Cardinality({k \in 0 .. (CellCount - 1) :
                                  s.rows[k \div Side][k % Side] = None})

\* Sudoku::score(): the number of filled cells; the f64 it stands for is
\* this count divided by CellCount
score(s) == Cardinality({k \in 0 .. (CellCount - 1) :
                            s.rows[k \div Side][k % Side] # None})

\* the `xy_in_grid` of cell_valid
xy_in_grid(x, y) == (y % BoxSide) * BoxSide + (x % BoxSide)

\* the `x2`, `y2` of cell_valid for box-local index i
BoxX(x, i) == BoxSide * (x \div BoxSide) + (i % BoxSide)
BoxY(y, i) == BoxSide * (y \div BoxSide) + (i \div BoxSide)

\* RowHits with the row scan stopping one cell early
RowHits_Short(s, x, y, value) == {i \in 0 .. (x - 2) : s.rows[y][i] = value}

\* the indices at which each of the three loops of cell_valid finds
\* `Some(value)`
RowHits(s, x, y, value) == {i \in 0 .. (x - 1) : s.rows[y][i] = value}
ColHits(s, x, y, value) == {i \in 0 .. (y - 1) : s.rows[i][x] = value}
BoxHits(s, x, y, value) ==
    {i \in 0 .. (xy_in_grid(x, y) - 1) : s.rows[BoxY(y, i)][BoxX(x, i)] = value}

\* cell_valid with the column looked at before the row
cell_valid_ColFirst(s, x, y, value) ==
    IF ColHits(s, x, y, value) # {}
    THEN ColConflict(<<x, y>>, <<x, Min(ColHits(s, x, y, value))>>)
    ELSE IF RowHits(s, x, y, value) # {}
    THEN RowConflict(<<x, y>>, <<Min(RowHits(s, x, y, value)), y>>)
    ELSE IF BoxHits(s, x, y, value) # {}
    THEN LET i == Min(BoxHits(s, x, y, value))
         IN  BoxConflict(<<x, y>>, <<BoxX(x, i), BoxY(y, i)>>)
    ELSE OkUnit

\* Sudoku::cell_valid()
cell_valid(s, x, y, value) ==
    IF RowHits(s, x, y, value) # {}
    THEN RowConflict(<<x, y>>, <<Min(RowHits(s, x, y, value)), y>>)
    ELSE IF ColHits(s, x, y, value) # {}
    THEN ColConflict(<<x, y>>, <<x, Min(ColHits(s, x, y, value))>>)
    ELSE IF BoxHits(s, x, y, value) # {}
    THEN LET i == Min(BoxHits(s, x, y, value))
         IN  BoxConflict(<<x, y>>, <<BoxX(x, i), BoxY(y, i)>>)
    ELSE OkUnit

\* Sudoku::is_cell_valid()
is_cell_valid(s, x, y, value) == cell_valid(s, x, y, value) = OkUnit

\* row-major scan positions at which well_formed() returns an error
WfStops(s) ==
    {k \in 0 .. (CellCount - 1) :
        /\ s.rows[k \div Side][k % Side] # None
        /\ ~is_cell_valid(s, k % Side, k \div Side, s.rows[k \div Side][k % Side])}

\* well_formed that reports the last offending cell of the scan
well_formed_Last(s) ==
    IF WfStops(s) = {} THEN OkUnit
    ELSE LET k == Max(WfStops(s))
         IN  cell_valid(s, k % Side, k \div Side, s.rows[k \div Side][k % Side])

\* Sudoku::well_formed()
well_formed(s) ==
    IF WfStops(s) = {} THEN OkUnit
    ELSE LET k == Min(WfStops(s))
         IN  cell_valid(s, k % Side, k \div Side, s.rows[k \div Side][k % Side])

\* FinStops that lets the empty cells pass, as well_formed() does
FinStops_SkipEmpty(s) == WfStops(s)

\* row-major scan positions at which finished() returns an error
FinStops(s) ==
    {k \in 0 .. (CellCount - 1) :
        \/ s.rows[k \div Side][k % Side] = None
        \/ ~is_cell_valid(s, k % Side, k \div Side, s.rows[k \div Side][k % Side])}

\* Sudoku::finished()
finished(s) ==
    IF FinStops(s) = {} THEN OkUnit
    ELSE LET k == Min(FinStops(s))
         IN  IF s.rows[k \div Side][k % Side] = None
             THEN EmptyCell(<<k % Side, k \div Side>>)
             ELSE cell_valid(s, k % Side, k \div Side, s.rows[k \div Side][k % Side])

\* Sudoku::is_well_formed()
is_well_formed(s) == well_formed(s) = OkUnit

\* Sudoku::is_finished()
is_finished(s) == finished(s) = OkUnit

----------------------------------------------------------------------------
(* Inputs of the solver *)

\* how many of the HoleCells an input may leave blank
MaxHoles == 5

\* a finished grid, the givens every input is cut from
BaseRows ==
    << <<1, 2, 3, 4, 5, 6, 7, 8, 9>>,
       <<4, 5, 6, 7, 8, 9, 1, 2, 3>>,
       <<7, 8, 9, 1, 2, 3, 4, 5, 6>>,
       <<2, 1, 4, 3, 6, 5, 8, 9, 7>>,
       <<3, 6, 5, 8, 9, 7, 2, 1, 4>>,
       <<8, 9, 7, 2, 1, 4, 3, 6, 5>>,
       <<5, 3, 1, 6, 4, 2, 9, 7, 8>>,
       <<6, 4, 2, 9, 7, 8, 5, 3, 1>>,
       <<9, 7, 8, 5, 3, 1, 6, 4, 2>> >>

Base == [rows |-> [y \in Idx |-> [x \in Idx |-> BaseRows[y + 1][x + 1]]]]

\* cells <<x, y>> an input may leave blank, the first MaxHoles of them
HoleCells == << <<7, 1>>, <<8, 1>>, <<7, 7>>, <<4, 8>>, <<4, 4>>, <<0, 0>>,
                <<8, 8>>, <<2, 5>> >>

HoleLimit == IF MaxHoles < Len(HoleCells) THEN MaxHoles ELSE Len(HoleCells)

\* cells <<x, y, v>> an input may overwrite with the given v
Pokes == { <<8, 8, 3>>, <<4, 4, 1>> }

\* Base with the cells of H blanked
Blanked(H) ==
    [rows |-> [y \in Idx |-> [x \in Idx |->
        IF \E i \in H : HoleCells[i] = <<x, y>> THEN None ELSE Base.rows[y][x]]]]

\* a second finished grid: every digit v of Base replaced by 10 - v
Mirror == [rows |-> [y \in Idx |-> [x \in Idx |-> 10 - Base.rows[y][x]]]]

Inputs ==
    {empty, Mirror}
    \cup {Blanked(H) : H \in SUBSET (1 .. HoleLimit)}
    \cup {WithCell(Blanked(H), p[1], p[2], p[3]) :
            H \in SUBSET (1 .. HoleLimit), p \in Pokes}

\* the errors a caller's callback may fail with
Errors == {"E1", "E2"}

----------------------------------------------------------------------------
(* src/solvers.rs *)

\* Result<bool, E> of a callback invocation
CbOk(b) == [tag |-> "Ok", val |-> b]
CbErr(e) == [tag |-> "Err", err |-> e]

\* Result<Option<Sudoku>, E> of run_with_callback
Pending == [tag |-> "Pending"]
OkSome(s) == [tag |-> "OkSome", grid |-> s]
OkNone == [tag |-> "OkNone"]
RetErr(e) == [tag |-> "Err", err |-> e]

\* what run() yields: the grid, or a panic of one of its unwraps
Solved(s) == [tag |-> "Sudoku", grid |-> s]
Panic == [tag |-> "Panic"]

\* the values the callback may return: run() passes `|_| Ok(true)`, a caller
\* of run_with_callback passes any closure
CallbackResults(e) ==
    IF e = "run" THEN {CbOk(TRUE)}
    ELSE IF e = "engine"
    THEN {CbOk(TRUE), CbOk(FALSE), CbErr("FrameDraw"), CbErr("KeyDetect")}
    ELSE {CbOk(TRUE), CbOk(FALSE)} \cup {CbErr(x) : x \in Errors}

\* InitBest with the blank grid recorded in place of the input
InitBest_Blank(sudoku) == <<score(sudoku), empty>>

\* `let mut best = (sudoku.score(), sudoku)`
InitBest(sudoku) == <<score(sudoku), sudoku>>

\* UpdateBest with the comparison turned around
UpdateBest_Less(b, a) == IF score(a) < b[1] THEN <<b[1], a>> ELSE b

\* `if attempt.score() > best.0 { best.1 = attempt; }`
UpdateBest(b, a) == IF score(a) > b[1] THEN <<b[1], a>> ELSE b

\* `search_space.pop()`: the element popped and the vector left
PopElem(ss) == ss[Len(ss)]
PopRest(ss) == SubSeq(ss, 1, Len(ss) - 1)

\* row-major positions of the empty cells of s
EmptyAt(s) == {k \in 0 .. (CellCount - 1) : s.rows[k \div Side][k % Side] = None}

\* ValidDigits with the digits tried from 9 down to 1
ValidDigits_Desc(s, x, y) ==
    SelectSeq([i \in 1 .. 9 |-> 10 - i], LAMBDA v : is_cell_valid(s, x, y, v))

\* the digits `for v in 1..=9` keeps, ascending
ValidDigits(s, x, y) ==
    SelectSeq([i \in 1 .. 9 |-> i], LAMBDA v : is_cell_valid(s, x, y, v))

\* Children that branch on the last empty cell
Children_LastEmpty(s) ==
    IF EmptyAt(s) = {} THEN << >>
    ELSE LET k == Max(EmptyAt(s))
             x == k % Side
             y == k \div Side
             ds == ValidDigits(s, x, y)
         IN  [i \in 1 .. Len(ds) |-> WithCell(s, x, y, ds[i])]

\* the candidates the `'empty_cell` loop pushes for s, in push order
Children(s) ==
    IF EmptyAt(s) = {} THEN << >>
    ELSE LET k == Min(EmptyAt(s))
             x == k % Side
             y == k \div Side
             ds == ValidDigits(s, x, y)
         IN  [i \in 1 .. Len(ds) |-> WithCell(s, x, y, ds[i])]

\* `search_space.push(next_attempt)` for each of the children, in order
PushAll(ss, kids) == ss \o kids

GridIdle ==
    /\ G = empty /\ edits = 0 /\ wfRes = OkUnit
    /\ finRes = OkUnit /\ scoreRes = 0 /\ cvRes = << >>

ParseIdle ==
    /\ fmt = "none" /\ ext = "none" /\ lines = << >> /\ raw = << >>
    /\ nGood = 0 /\ nOdd = 0 /\ pres = [tag |-> "Pending"]

EngineIdle ==
    /\ sudokus = << >> /\ given = << >> /\ results = << >>
    /\ solutions = << >> /\ eret = [tag |-> "Pending"]

\* the call: `best` and `search_space` are initialised from the argument
Init ==
    /\ entry \in {"run", "run_with_callback"}
    /\ input \in Inputs
    /\ pc = "loop"
    /\ best = InitBest(input)
    /\ search_space = <<input>>
    /\ attempt = input
    /\ ret = Pending
    /\ solved = Pending
    /\ nPops = 0
    /\ cbLog = << >>
    /\ callsThis = 0
    /\ bookThis = FALSE
    /\ pushedThis = 0
    /\ maxWf = -1
    /\ cbArg = input
    /\ GridIdle
    /\ ParseIdle
    /\ EngineIdle

\* `while let Some(attempt) = search_space.pop()`, a candidate is there
Pop ==
    /\ pc = "loop"
    /\ search_space # << >>
    /\ attempt' = PopElem(search_space)
    /\ search_space' = PopRest(search_space)
    /\ pc' = "wf"
    /\ nPops' = nPops + 1
    /\ callsThis' = 0
    /\ bookThis' = FALSE
    /\ pushedThis' = 0
    /\ UNCHANGED <<entry, input, best, ret, solved, cbLog, maxWf, cbArg>>
    /\ UNCHANGED gridVars
    /\ UNCHANGED parseVars
    /\ UNCHANGED engineVars

\* Exhausted that stays in the loop on the empty vector
Exhausted_Spin ==
    /\ pc = "loop"
    /\ search_space = << >>
    /\ pc' = "loop"
    /\ UNCHANGED <<entry, input, best, search_space, attempt, ret, solved,
                   nPops, cbLog, callsThis, bookThis, pushedThis, maxWf, cbArg>>
    /\ UNCHANGED gridVars
    /\ UNCHANGED parseVars
    /\ UNCHANGED engineVars

\* `while let` fails on the empty vector: the loop is left
Exhausted ==
    /\ pc = "loop"
    /\ search_space = << >>
    /\ pc' = "return"
    /\ UNCHANGED <<entry, input, best, search_space, attempt, ret, solved,
                   nPops, cbLog, callsThis, bookThis, pushedThis, maxWf, cbArg>>
    /\ UNCHANGED gridVars
    /\ UNCHANGED parseVars
    /\ UNCHANGED engineVars

\* Discard that records the ill-formed attempt as the best
Discard_Bookkeep ==
    /\ pc = "wf"
    /\ ~is_well_formed(attempt)
    /\ best' = <<best[1], attempt>>
    /\ pc' = "loop"
    /\ UNCHANGED <<entry, input, search_space, attempt, ret, solved,
                   nPops, cbLog, callsThis, bookThis, pushedThis, maxWf, cbArg>>
    /\ UNCHANGED gridVars
    /\ UNCHANGED parseVars
    /\ UNCHANGED engineVars

\* Discard that takes the ill-formed attempt for a well-formed one
Discard_Keep ==
    /\ pc = "wf"
    /\ ~is_well_formed(attempt)
    /\ best' = UpdateBest(best, attempt)
    /\ pc' = "fin"
    /\ UNCHANGED <<entry, input, search_space, attempt, ret, solved,
                   nPops, cbLog, callsThis, bookThis, pushedThis, maxWf, cbArg>>
    /\ UNCHANGED gridVars
    /\ UNCHANGED parseVars
    /\ UNCHANGED engineVars

\* Discard with the ill-formed attempt handed on to the callback
Discard_CallbackFirst ==
    /\ pc = "wf"
    /\ ~is_well_formed(attempt)
    /\ pc' = "cb"
    /\ UNCHANGED <<entry, input, best, search_space, attempt, ret, solved,
                   nPops, cbLog, callsThis, bookThis, pushedThis, maxWf, cbArg>>
    /\ UNCHANGED gridVars
    /\ UNCHANGED parseVars
    /\ UNCHANGED engineVars

\* `if !attempt.is_well_formed() { continue; }`
Discard ==
    /\ pc = "wf"
    /\ ~is_well_formed(attempt)
    /\ pc' = "loop"
    /\ UNCHANGED <<entry, input, best, search_space, attempt, ret, solved,
                   nPops, cbLog, callsThis, bookThis, pushedThis, maxWf, cbArg>>
    /\ UNCHANGED gridVars
    /\ UNCHANGED parseVars
    /\ UNCHANGED engineVars

\* a well-formed attempt: `if attempt.score() > best.0 { best.1 = attempt; }`
Bookkeep ==
    /\ pc = "wf"
    /\ is_well_formed(attempt)
    /\ best' = UpdateBest(best, attempt)
    /\ bookThis' = TRUE
    /\ maxWf' = IF score(attempt) > maxWf THEN score(attempt) ELSE maxWf
    /\ pc' = "fin"
    /\ UNCHANGED <<entry, input, search_space, attempt, ret, solved,
                   nPops, cbLog, callsThis, pushedThis, cbArg>>
    /\ UNCHANGED gridVars
    /\ UNCHANGED parseVars
    /\ UNCHANGED engineVars

\* Break as a `continue`: the search goes on after a finished attempt
Break_Continue ==
    /\ pc = "fin"
    /\ is_finished(attempt)
    /\ pc' = "loop"
    /\ UNCHANGED <<entry, input, best, search_space, attempt, ret, solved,
                   nPops, cbLog, callsThis, bookThis, pushedThis, maxWf, cbArg>>
    /\ UNCHANGED gridVars
    /\ UNCHANGED parseVars
    /\ UNCHANGED engineVars

\* Break with the finished attempt handed to the callback instead
Break_CallbackFirst ==
    /\ pc = "fin"
    /\ is_finished(attempt)
    /\ pc' = "cb"
    /\ UNCHANGED <<entry, input, best, search_space, attempt, ret, solved,
                   nPops, cbLog, callsThis, bookThis, pushedThis, maxWf, cbArg>>
    /\ UNCHANGED gridVars
    /\ UNCHANGED parseVars
    /\ UNCHANGED engineVars

\* `if attempt.is_finished() { break; }`
Break ==
    /\ pc = "fin"
    /\ is_finished(attempt)
    /\ pc' = "return"
    /\ UNCHANGED <<entry, input, best, search_space, attempt, ret, solved,
                   nPops, cbLog, callsThis, bookThis, pushedThis, maxWf, cbArg>>
    /\ UNCHANGED gridVars
    /\ UNCHANGED parseVars
    /\ UNCHANGED engineVars

\* the attempt is not finished: on to the callback
NotFinished ==
    /\ pc = "fin"
    /\ ~is_finished(attempt)
    /\ pc' = "cb"
    /\ UNCHANGED <<entry, input, best, search_space, attempt, ret, solved,
                   nPops, cbLog, callsThis, bookThis, pushedThis, maxWf, cbArg>>
    /\ UNCHANGED gridVars
    /\ UNCHANGED parseVars
    /\ UNCHANGED engineVars

\* Callback that goes on with the search when the callback says stop
Callback_IgnoreStop ==
    /\ pc = "cb"
    /\ \E r \in CallbackResults(entry) :
        /\ cbLog' = Append(cbLog, r)
        /\ cbArg' = attempt
        /\ callsThis' = callsThis + 1
        /\ IF r.tag = "Err"
           THEN pc' = "returned" /\ ret' = RetErr(r.err)
           ELSE pc' = "expand" /\ ret' = ret
    /\ UNCHANGED <<entry, input, best, search_space, attempt, solved,
                   nPops, bookThis, pushedThis, maxWf>>
    /\ UNCHANGED gridVars
    /\ UNCHANGED parseVars
    /\ UNCHANGED engineVars

\* Callback that takes a failure of the callback for a stop
Callback_SwallowErr ==
    /\ pc = "cb"
    /\ \E r \in CallbackResults(entry) :
        /\ cbLog' = Append(cbLog, r)
        /\ cbArg' = attempt
        /\ callsThis' = callsThis + 1
        /\ IF r.tag = "Err" \/ ~r.val
           THEN pc' = "returned" /\ ret' = OkNone
           ELSE pc' = "expand" /\ ret' = ret
    /\ UNCHANGED <<entry, input, best, search_space, attempt, solved,
                   nPops, bookThis, pushedThis, maxWf>>
    /\ UNCHANGED gridVars
    /\ UNCHANGED parseVars
    /\ UNCHANGED engineVars

\* `if !callback(&attempt)? { return Ok(None); }`
Callback ==
    /\ pc = "cb"
    /\ \E r \in CallbackResults(entry) :
        /\ cbLog' = Append(cbLog, r)
        /\ cbArg' = attempt
        /\ callsThis' = callsThis + 1
        /\ IF r.tag = "Err"
           THEN pc' = "returned" /\ ret' = RetErr(r.err)
           ELSE IF ~r.val
           THEN pc' = "returned" /\ ret' = OkNone
           ELSE pc' = "expand" /\ ret' = ret
    /\ UNCHANGED <<entry, input, best, search_space, attempt, solved,
                   nPops, bookThis, pushedThis, maxWf>>
    /\ UNCHANGED gridVars
    /\ UNCHANGED parseVars
    /\ UNCHANGED engineVars

\* the `'empty_cell` loop: the first empty cell is branched on
Expand ==
    /\ pc = "expand"
    /\ search_space' = PushAll(search_space, Children(attempt))
    /\ pushedThis' = Len(Children(attempt))
    /\ pc' = "loop"
    /\ UNCHANGED <<entry, input, best, attempt, ret, solved,
                   nPops, cbLog, callsThis, bookThis, maxWf, cbArg>>
    /\ UNCHANGED gridVars
    /\ UNCHANGED parseVars
    /\ UNCHANGED engineVars

\* `Ok(Some(best.1))`
Return ==
    /\ pc = "return"
    /\ ret' = OkSome(best[2])
    /\ pc' = "returned"
    /\ UNCHANGED <<entry, input, best, search_space, attempt, solved,
                   nPops, cbLog, callsThis, bookThis, pushedThis, maxWf, cbArg>>
    /\ UNCHANGED gridVars
    /\ UNCHANGED parseVars
    /\ UNCHANGED engineVars

\* Solver::run(): `.unwrap().unwrap()` on what run_with_callback returned
RunUnwrap ==
    /\ pc = "returned"
    /\ entry = "run"
    /\ solved' = IF ret.tag = "OkSome" THEN Solved(ret.grid) ELSE Panic
    /\ pc' = "done"
    /\ UNCHANGED <<entry, input, best, search_space, attempt, ret,
                   nPops, cbLog, callsThis, bookThis, pushedThis, maxWf, cbArg>>
    /\ UNCHANGED gridVars
    /\ UNCHANGED parseVars
    /\ UNCHANGED engineVars

Next ==
    \/ Pop
    \/ Exhausted
    \/ Discard
    \/ Bookkeep
    \/ Break
    \/ NotFinished
    \/ Callback
    \/ Expand
    \/ Return
    \/ RunUnwrap

Spec == Init /\ [][Next]_vars

\* the call runs to its end: a step that can be taken is taken
FairSpec == Spec /\ WF_vars(Next)

TypeOK ==
    /\ pc \in {"loop", "wf", "fin", "cb", "expand", "return", "returned", "done"}
    /\ Len(cbLog) <= nPops

----------------------------------------------------------------------------
(* What the rules of Sudoku say, stated without the scan order of the code *)

CellX(k) == k % Side
CellY(k) == k \div Side
ValAt(s, k) == s.rows[CellY(k)][CellX(k)]

\* two distinct cells in one row, one column or one box
SameUnit(a, b) ==
    /\ a # b
    /\ \/ CellY(a) = CellY(b)
       \/ CellX(a) = CellX(b)
       \/ /\ CellX(a) \div BoxSide = CellX(b) \div BoxSide
          /\ CellY(a) \div BoxSide = CellY(b) \div BoxSide

\* no two cells of a unit hold the same value
NoDuplicate(s) ==
    \A a, b \in 0 .. (CellCount - 1) :
        (SameUnit(a, b) /\ ValAt(s, a) # None) => ValAt(s, a) # ValAt(s, b)

\* no cell that shares a unit with cell k holds v
CanPlace(s, k, v) ==
    \A b \in 0 .. (CellCount - 1) : SameUnit(k, b) => ValAt(s, b) # v

\* some way of filling the empty cells of s with 1..9 leaves no duplicate
RECURSIVE HasCompletion(_)
HasCompletion(s) ==
    IF EmptyAt(s) = {} THEN NoDuplicate(s)
    ELSE LET k == Min(EmptyAt(s))
         IN  \E v \in 1 .. 9 :
                /\ CanPlace(s, k, v)
                /\ HasCompletion(WithCell(s, CellX(k), CellY(k), v))

Returned == pc \in {"returned", "done"}

\* number of callback invocations so far
nCalls == Len(cbLog)

\* some callback invocation returned stop / failed
StopSeen == \E i \in 1 .. Len(cbLog) : cbLog[i] = CbOk(FALSE)
ErrSeen == \E i \in 1 .. Len(cbLog) : cbLog[i].tag = "Err"

----------------------------------------------------------------------------
(* Claims *)

\* C1: run() on a well-formed grid that has a valid completion, the blank
\* grid among them, returns a grid for which is_finished holds.
C1_SolvableIsSolved ==
    (entry = "run" /\ pc = "done" /\ is_well_formed(input) /\ HasCompletion(input))
        => (solved.tag = "Sudoku" /\ is_finished(solved.grid))

C1_Witness ==
    /\ entry = "run" /\ pc = "done" /\ input = empty
    /\ solved.tag = "Sudoku" /\ is_finished(solved.grid)

\* C2: on an input that is already finished the solver returns a grid equal
\* to the input and never invokes the callback.
C2_FinishedInputReturned ==
    is_finished(input) =>
        /\ nCalls = 0
        /\ pc = "returned" => ret = OkSome(input)
        /\ pc = "done" => solved = Solved(input)

C2_Witness ==
    /\ pc = "returned" /\ is_finished(input) /\ ret = OkSome(input) /\ nCalls = 0
    /\ nPops = 1

\* C3: on a well-formed input without a valid completion the search is
\* exhausted and the grid returned is not finished and has the largest score
\* of all well-formed candidates popped.
C3_BestEffortIsMax ==
    (pc = "returned" /\ ret.tag = "OkSome"
        /\ is_well_formed(input) /\ ~HasCompletion(input))
        => (~is_finished(ret.grid) /\ score(ret.grid) = maxWf)

\* C4: run_with_callback returns None exactly when a callback invocation
\* returned stop; after a stop no candidate is popped and no callback is
\* made; run(), whose callback always continues, returns a grid and does
\* not panic.
C4_NoneIffStopped ==
    /\ [](ret = OkNone <=> StopSeen)
    /\ [](StopSeen => (pc = "returned" /\ cbLog[Len(cbLog)] = CbOk(FALSE)))
    /\ [][StopSeen => (nPops' = nPops /\ cbLog' = cbLog)]_vars
    /\ []((entry = "run" /\ Returned) => ret.tag = "OkSome")
    /\ [](pc = "done" => solved = Solved(ret.grid))

C4_Witness ==
    /\ pc = "returned" /\ ret = OkNone /\ StopSeen
    /\ nCalls >= 2 /\ search_space # << >>

\* C5: when a callback invocation fails with e, run_with_callback returns
\* that e, and nothing is popped or passed to the callback afterwards.
C5_ErrorPropagates ==
    /\ [](\A i \in 1 .. Len(cbLog) : cbLog[i].tag = "Err" =>
            (i = Len(cbLog) /\ pc = "returned" /\ ret = RetErr(cbLog[i].err)))
    /\ [](ret.tag = "Err" => ErrSeen)
    /\ [][ErrSeen => (nPops' = nPops /\ cbLog' = cbLog)]_vars

C5_Witness ==
    /\ pc = "returned" /\ ret = RetErr("E2") /\ cbLog[Len(cbLog)] = CbErr("E2")
    /\ nCalls >= 2 /\ search_space # << >>

\* C6: the callback is invoked once for each popped candidate that is
\* well-formed and not finished, on that candidate, and never for an
\* ill-formed or a finished one; the invocation comes after the best-attempt
\* bookkeeping for the candidate and before any of its children is pushed.
C6_CallbackOncePerExpanded ==
    /\ [](callsThis <= 1)
    /\ [](callsThis = 1 =>
            (is_well_formed(attempt) /\ ~is_finished(attempt)
                /\ bookThis /\ cbArg = attempt))
    /\ []((nPops > 0 /\ pc \in {"loop", "expand", "return", "returned", "done"}) =>
            (callsThis = 1 <=> (is_well_formed(attempt) /\ ~is_finished(attempt))))
    /\ [](pushedThis > 0 => callsThis = 1)
    /\ [][cbLog' # cbLog =>
            (bookThis /\ pushedThis = 0 /\ search_space' = search_space
                /\ Len(cbLog') = Len(cbLog) + 1 /\ cbArg' = attempt)]_vars
    /\ [][search_space' # search_space /\ Len(search_space') >= Len(search_space)
            => (callsThis = 1 /\ cbLog' = cbLog)]_vars

C6_Witness ==
    /\ pc = "loop" /\ callsThis = 1 /\ pushedThis > 1 /\ nPops >= 3
    /\ nCalls < nPops

\* C7: once a popped candidate is finished the search stops: that candidate
\* is the grid returned, and nothing left on the stack is popped, checked or
\* passed to the callback.
C7_FinishedStopsSearch ==
    /\ [][(pc = "fin" /\ is_finished(attempt)) =>
            (pc' = "return" /\ best[2] = attempt)]_vars
    /\ [][(pc = "return" \/ pc = "returned" \/ pc = "done") =>
            (UNCHANGED <<search_space, attempt, nPops, cbLog, best>>)]_vars
    /\ []((Returned /\ nPops > 0 /\ is_finished(attempt)) => ret = OkSome(attempt))

C7_Witness ==
    /\ pc = "returned" /\ is_finished(attempt) /\ ret = OkSome(attempt)
    /\ search_space # << >> /\ attempt # input

\* C8: the recorded best attempt is replaced only by a candidate whose score
\* is strictly larger than that of the recorded best attempt, so the score
\* of the recorded best attempt never decreases.
C8_BestReplacedOnlyByBetter ==
    [][/\ best'[2] # best[2] => score(best'[2]) > score(best[2])
       /\ score(best'[2]) >= score(best[2])]_vars

\* the first empty cell of s in row-major order, as <<x, y>>
FirstEmpty(s) == <<CellX(Min(EmptyAt(s))), CellY(Min(EmptyAt(s)))>>

\* the digits that pass is_cell_valid at the first empty cell of s
Passing(s) ==
    {v \in 1 .. 9 : is_cell_valid(s, FirstEmpty(s)[1], FirstEmpty(s)[2], v)}

\* the n last entries of the stack
Top(n) == SubSeq(search_space, Len(search_space) - n + 1, Len(search_space))

\* how many of the steps of the loop can be taken in the current state
EnabledSteps ==
    Cardinality({i \in 1 .. 10 :
        \/ i = 1 /\ ENABLED Pop
        \/ i = 2 /\ ENABLED Exhausted
        \/ i = 3 /\ ENABLED Discard
        \/ i = 4 /\ ENABLED Bookkeep
        \/ i = 5 /\ ENABLED Break
        \/ i = 6 /\ ENABLED NotFinished
        \/ i = 7 /\ ENABLED Callback
        \/ i = 8 /\ ENABLED Expand
        \/ i = 9 /\ ENABLED Return
        \/ i = 10 /\ ENABLED RunUnwrap})

\* C9: the search is depth-first and last-in-first-out: the children of a
\* candidate are pushed for ascending digits, so the candidate popped next
\* is the child with the largest digit that passes is_cell_valid; and with
\* the always-continue callback every state has one step to take, so the
\* candidates visited and the grid returned are determined by the input.
C9_DescendingDepthFirst ==
    /\ []((pc = "loop" /\ pushedThis > 0) =>
            /\ pushedThis = Cardinality(Passing(attempt))
            /\ \A i \in 1 .. pushedThis :
                /\ Top(pushedThis)[i].rows[FirstEmpty(attempt)[2]][FirstEmpty(attempt)[1]]
                      \in Passing(attempt)
                /\ Top(pushedThis)[i] =
                      WithCell(attempt, FirstEmpty(attempt)[1], FirstEmpty(attempt)[2],
                          Top(pushedThis)[i].rows[FirstEmpty(attempt)[2]][FirstEmpty(attempt)[1]])
            /\ \A i \in 1 .. (pushedThis - 1) :
                Top(pushedThis)[i].rows[FirstEmpty(attempt)[2]][FirstEmpty(attempt)[1]]
                    < Top(pushedThis)[i + 1].rows[FirstEmpty(attempt)[2]][FirstEmpty(attempt)[1]])
    /\ [][(pc = "loop" /\ pc' = "wf" /\ pushedThis > 0) =>
            attempt' = WithCell(attempt, FirstEmpty(attempt)[1], FirstEmpty(attempt)[2],
                                Max(Passing(attempt)))]_vars
    /\ [][(pc = "loop" /\ pc' = "wf") =>
            (attempt' = search_space[Len(search_space)]
                /\ search_space' = SubSeq(search_space, 1, Len(search_space) - 1))]_vars
    /\ [](entry = "run" => EnabledSteps = (IF pc = "done" THEN 0 ELSE 1))

C9_Witness ==
    /\ pc = "loop" /\ pushedThis >= 2 /\ nPops >= 2
    /\ search_space[Len(search_space)] =
          WithCell(attempt, FirstEmpty(attempt)[1], FirstEmpty(attempt)[2],
                   Max(Passing(attempt)))
    /\ Len(search_space) > pushedThis

----------------------------------------------------------------------------
(* The grid model on its own: a grid is built by overwriting cells, as the  *)
(* tests of src/sudoku.rs do through the public `rows`, and checked.       *)

\* how many cells of the starting grid may be overwritten
MaxEdits == 2

\* the cells <<x, y>> that may be overwritten
EditCells == { <<0, 0>>, <<1, 0>>, <<2, 0>>, <<3, 0>>, <<5, 0>>, <<0, 1>>,
               <<1, 1>>, <<0, 3>>, <<0, 5>>, <<4, 4>>, <<7, 7>>, <<8, 8>> }

\* the values a cell may be overwritten with
EditVals == {None, 0, 1, 9}

SolverIdle ==
    /\ entry = "none" /\ input = empty /\ pc = "idle"
    /\ best = InitBest(empty) /\ search_space = << >> /\ attempt = empty
    /\ ret = Pending /\ solved = Pending
    /\ nPops = 0 /\ cbLog = << >> /\ callsThis = 0 /\ bookThis = FALSE
    /\ pushedThis = 0 /\ maxWf = -1 /\ cbArg = empty

\* the calls cell_valid(x, y, value) made on every grid, as <<x, y, value>>
Probes == {<<c[1], c[2], v>> : c \in EditCells, v \in EditVals \ {None}}

\* the result of cell_valid on g for every probe
ProbeAll(g) == [p \in Probes |-> cell_valid(g, p[1], p[2], p[3])]

GridInit ==
    /\ G \in {empty, Base}
    /\ edits = 0
    /\ wfRes = well_formed(G)
    /\ finRes = finished(G)
    /\ scoreRes = score(G)
    /\ cvRes = ProbeAll(G)
    /\ SolverIdle
    /\ ParseIdle
    /\ EngineIdle

\* `g.rows[y][x] = v` followed by `g.score()`, `g.well_formed()`,
\* `g.finished()` and the cell_valid calls
SetCell ==
    /\ edits < MaxEdits
    /\ \E c \in EditCells, v \in EditVals :
        /\ G' = WithCell(G, c[1], c[2], v)
        /\ wfRes' = well_formed(G')
        /\ finRes' = finished(G')
        /\ scoreRes' = score(G')
        /\ cvRes' = ProbeAll(G')
    /\ edits' = edits + 1
    /\ UNCHANGED solverVars
    /\ UNCHANGED parseVars
    /\ UNCHANGED engineVars

GridNext == SetCell

GridSpec == GridInit /\ [][GridNext]_vars

\* C10: well_formed(G) is Ok exactly when no two distinct cells that share
\* a row, a column or a box hold the same non-blank value.
C10_WellFormedIffNoDuplicate ==
    (wfRes = OkUnit) <=> NoDuplicate(G)

C10_Witness ==
    /\ edits = 2 /\ wfRes.tag = "BoxConflict" /\ ~NoDuplicate(G)
    /\ G.rows[0][2] = 1 /\ G.rows[1][0] = 1

\* every cell of g is filled
AllFilled(g) == \A k \in 0 .. (CellCount - 1) : ValAt(g, k) # None

\* C11: finished(G) is Ok exactly when well_formed(G) is Ok and each of the
\* 81 cells is filled.
C11_FinishedIffWellFormedAndFull ==
    (finRes = OkUnit) <=> (wfRes = OkUnit /\ AllFilled(G))

C11_Witness ==
    /\ edits = 2 /\ finRes = OkUnit /\ wfRes = OkUnit /\ AllFilled(G)
    /\ G = Base

\* the cells <<x, y>> of the grid
Cells == {<<k % Side, k \div Side>> : k \in 0 .. (CellCount - 1)}

\* the cells that cell_valid(x, y, _) compares with: the row to the left,
\* the column above, the box before the box-local position of <<x, y>>
LeftOf(x, y) == {c \in Cells : c[2] = y /\ c[1] < x}
Above(x, y) == {c \in Cells : c[1] = x /\ c[2] < y}
BoxBefore(x, y) ==
    {c \in Cells :
        /\ c[1] \div BoxSide = x \div BoxSide
        /\ c[2] \div BoxSide = y \div BoxSide
        /\ (c[2] % BoxSide) * BoxSide + (c[1] % BoxSide)
              < (y % BoxSide) * BoxSide + (x % BoxSide)}

\* the cells of C that hold v in g
Holding(g, C, v) == {c \in C : g.rows[c[2]][c[1]] = v}

\* the cell of C that comes first in row-major order
FirstOf(C) ==
    CHOOSE c \in C : \A d \in C : c[2] * Side + c[1] <= d[2] * Side + d[1]

\* what C12 expects of cell_valid(x, y, v) on g
Expected(g, x, y, v) ==
    IF Holding(g, LeftOf(x, y), v) # {}
    THEN RowConflict(<<x, y>>, FirstOf(Holding(g, LeftOf(x, y), v)))
    ELSE IF Holding(g, Above(x, y), v) # {}
    THEN ColConflict(<<x, y>>, FirstOf(Holding(g, Above(x, y), v)))
    ELSE IF Holding(g, BoxBefore(x, y), v) # {}
    THEN BoxConflict(<<x, y>>, FirstOf(Holding(g, BoxBefore(x, y), v)))
    ELSE OkUnit

\* the cells in which the grids g and h differ
Changed(g, h) == {c \in Cells : g.rows[c[2]][c[1]] # h.rows[c[2]][c[1]]}

\* C12: cell_valid(x, y, v) fails exactly when v is held by a cell to the
\* left in the row, above in the column or before in the box; it reports
\* the row before the column before the box and, within one of them, the
\* first such cell; a change of any other cell leaves the result as it was.
C12_CellValidEarlierOnly ==
    /\ [](\A p \in DOMAIN cvRes : cvRes[p] = Expected(G, p[1], p[2], p[3]))
    /\ [][\A p \in DOMAIN cvRes :
            (Changed(G, G') \cap
                (LeftOf(p[1], p[2]) \cup Above(p[1], p[2]) \cup BoxBefore(p[1], p[2]))
                    = {})
                => cvRes'[p] = cvRes[p]]_vars

C12_Witness ==
    /\ edits = 2 /\ G.rows[1][0] = 1 /\ G.rows[0][1] = 1 /\ G.rows[5][0] = None
    /\ cvRes[<<1, 1, 1>>] = RowConflict(<<1, 1>>, <<0, 1>>)
    /\ cvRes[<<0, 5, 1>>] = ColConflict(<<0, 5>>, <<0, 1>>)
    /\ cvRes[<<0, 1, 1>>] = BoxConflict(<<0, 1>>, <<1, 0>>)
    /\ cvRes[<<0, 0, 1>>] = OkUnit

\* the filled cells of g that repeat the value of a row-major earlier cell
\* of their row, column or box
Repeats(g) ==
    {k \in 0 .. (CellCount - 1) :
        /\ ValAt(g, k) # None
        /\ \E b \in 0 .. (k - 1) : SameUnit(k, b) /\ ValAt(g, b) = ValAt(g, k)}

\* the result r names cell k and a row-major earlier cell of one of its
\* units, of the kind the tag says, that holds the same value
NamesRepeat(g, r, k) ==
    /\ r.tag \in {"RowConflict", "ColConflict", "BoxConflict"}
    /\ r.cell = <<CellX(k), CellY(k)>>
    /\ LET b == r.conflict[2] * Side + r.conflict[1]
       IN  /\ b < k /\ SameUnit(k, b) /\ ValAt(g, b) = ValAt(g, k)
           /\ r.tag = "RowConflict" => CellY(b) = CellY(k)
           /\ r.tag = "ColConflict" => CellX(b) = CellX(k)

\* C13: well_formed and finished report the first violation of the
\* row-major scan: the first filled cell that repeats an earlier cell of its
\* row, column or box, with that earlier cell; for finished an empty cell is
\* a violation at its place in the scan; on a full grid the two agree.
C13_FirstViolationReported ==
    /\ Repeats(G) = {} <=> wfRes = OkUnit
    /\ Repeats(G) # {} => NamesRepeat(G, wfRes, Min(Repeats(G)))
    /\ (Repeats(G) \cup EmptyAt(G)) = {} <=> finRes = OkUnit
    /\ (Repeats(G) \cup EmptyAt(G)) # {} =>
          LET k == Min(Repeats(G) \cup EmptyAt(G))
          IN  IF ValAt(G, k) = None
              THEN finRes = EmptyCell(<<CellX(k), CellY(k)>>)
              ELSE NamesRepeat(G, finRes, k)
    /\ AllFilled(G) => finRes = wfRes

C13_Witness ==
    /\ G.rows[0][0] = None /\ finRes = EmptyCell(<<0, 0>>)
    /\ wfRes = RowConflict(<<8, 0>>, <<5, 0>>)
    /\ Cardinality(Repeats(G)) >= 2

\* C14: score(G) is the number of filled cells over 81, whatever the
\* conflicts: 0 for the blank grid, 81/81 for a full grid, also an
\* ill-formed one, and filling one empty cell adds 1/81.
C14_ScoreIsFillRatio ==
    /\ [](scoreRes \in 0 .. CellCount)
    /\ [](G = empty => scoreRes = 0)
    /\ [](AllFilled(G) => scoreRes = CellCount)
    /\ [][\A c \in Changed(G, G') :
            /\ (G.rows[c[2]][c[1]] = None) => scoreRes' = scoreRes + 1
            /\ (G'.rows[c[2]][c[1]] = None) => scoreRes' = scoreRes - 1
            /\ (G.rows[c[2]][c[1]] # None /\ G'.rows[c[2]][c[1]] # None)
                  => scoreRes' = scoreRes]_vars

C14_Witness ==
    /\ edits = 2 /\ AllFilled(G) /\ wfRes # OkUnit /\ scoreRes = CellCount

(***************************************************************************)
(* File parsers (utils.rs).  A file's text is a sequence of characters,    *)
(* each a one-character string; a grapheme that takes more than one byte   *)
(* is written as its code point, "U+00E9".                                 *)
(***************************************************************************)
DigitChars == <<"0", "1", "2", "3", "4", "5", "6", "7", "8", "9">>

MultiByte == {"U+00E9"}

\* `cell.len()`: the byte length of one grapheme.
ByteLen(c) == IF c \in MultiByte THEN 2 ELSE 1

\* `c.len() == 1 && c >= '0' && c <= '9'`
IsDigit(c) == ByteLen(c) = 1 /\ \E d \in 1..10 : DigitChars[d] = c

\* `u8::from_str(c).unwrap()` on one digit character.
DigitVal(c) == (CHOOSE d \in 1..10 : DigitChars[d] = c) - 1

\* `line.trim().len() == 0`
Whitespace == {" ", "\t", "\r"}

IsBlankLine(line) == \A i \in 1..Len(line) : line[i] \in Whitespace

\* `raw.split('\n')`: the segments between newlines, empty ones included.
\* The positions of `sep` in `text`, in increasing order.
SepsIn(text, sep) ==
    SelectSeq([i \in 1..Len(text) |-> i], LAMBDA i : text[i] = sep)

Split(text, sep) ==
    LET seps == SepsIn(text, sep)
        n    == Len(seps)
    IN  [j \in 1..(n + 1) |->
            SubSeq(text,
                   IF j = 1 THEN 1 ELSE seps[j - 1] + 1,
                   IF j = n + 1 THEN Len(text) ELSE seps[j] - 1)]

\* `Sudoku::with_values(rows)` from rows given as 1-indexed tuples.
with_values(rs) == [rows |-> [y \in Idx |-> [x \in Idx |-> rs[y + 1][x + 1]]]]

\* Parser results: Ok(vec) or one of the error values of the parser.
ParseOk(vec) == [tag |-> "Ok", sudokus |-> vec]

\* SudokuPuzzleCollectionError
TooManyCells(l, n) == [tag |-> "TooManyCells", line |-> l, got |-> n]

CollectionIllegalCellChar(l, i, c) ==
    [tag |-> "IllegalCellChar", line |-> l, cell |-> i, got |-> c]

\* One line of an .sdm file: the grid it encodes, or the error it raises.
SdmCells_KeepZero(cells) ==
    [i \in 1..Len(cells) |-> DigitVal(cells[i])]

SdmCells(cells) ==
    [i \in 1..Len(cells) |->
        IF DigitVal(cells[i]) > 0 THEN DigitVal(cells[i]) ELSE None]

SdmLine_CharsFirst(cells, l) ==
    LET bad == {i \in 1..Len(cells) : ~IsDigit(cells[i])} IN
    IF bad # {}
    THEN CollectionIllegalCellChar(l + 1, Min(bad), cells[Min(bad)])
    ELSE IF Len(cells) # CellCount
    THEN TooManyCells(l + 1, Len(cells))
    ELSE LET vs == SdmCells(cells) IN
         ParseOk(<<[rows |-> [y \in Idx |-> [x \in Idx |-> vs[y * Side + x + 1]]]]>>)

SdmLine(cells, l) ==
    LET bad == {i \in 1..Len(cells) : ~IsDigit(cells[i])} IN
    IF Len(cells) # CellCount
    THEN TooManyCells(l + 1, Len(cells))
    ELSE IF bad # {}
    THEN CollectionIllegalCellChar(l + 1, Min(bad), cells[Min(bad)])
    ELSE LET vs == SdmCells(cells) IN
         ParseOk(<<[rows |-> [y \in Idx |-> [x \in Idx |-> vs[y * Side + x + 1]]]]>>)

RECURSIVE SdmFrom(_, _, _)
SdmFrom(ls, l, vec) ==
    IF l >= Len(ls) THEN ParseOk(vec)
    ELSE LET r == SdmLine(ls[l + 1], l) IN
         IF r.tag = "Ok"
         THEN SdmFrom(ls, l + 1, vec \o r.sudokus)
         ELSE r

parse_sudoku_puzzle_collection(text) == SdmFrom(Split(text, "\n"), 0, << >>)

\* SudokuPuzzleError
UnknownMetadata(l, m) == [tag |-> "UnknownMetadata", line |-> l, marker |-> m]

IncorrectLength(l, n) == [tag |-> "IncorrectLength", line |-> l, got |-> n]

PuzzleIllegalCellChar(l, x, c) ==
    [tag |-> "IllegalCellChar", line |-> l, col |-> x, got |-> c]

PuzzleTooManyRows(l) == [tag |-> "TooManyRows", line |-> l]

\* What one line does to the loop: `continue`, a row to store, or an error.
Skip == [tag |-> "Skip"]

Row(r) == [tag |-> "Row", row |-> r]

Markers == {"A", "D", "C", "B", "S", "L", "U"}

NoneRow == [x \in 1..Side |-> None]

NoneRows == [y \in 1..Side |-> NoneRow]

SdkCell_ZeroBlank(c) ==
    IF IsDigit(c) /\ DigitVal(c) > 0 THEN DigitVal(c) ELSE None

SdkCell(c) == IF IsDigit(c) THEN DigitVal(c) ELSE None

SdkLine_NoMetadata(line, l) ==
    LET bad == {x \in 1..Len(line) : ~IsDigit(line[x]) /\ line[x] # "."} IN
    IF IsBlankLine(line) THEN Skip
    ELSE IF Len(line) >= 2 /\ line[1] = "#"
    THEN Skip
    ELSE IF Len(line) # Side
    THEN IncorrectLength(l + 1, Len(line))
    ELSE IF bad # {}
    THEN PuzzleIllegalCellChar(l + 1, Min(bad), line[Min(bad)])
    ELSE Row([x \in 1..Side |-> SdkCell(line[x])])

SdkLine(line, l) ==
    LET bad == {x \in 1..Len(line) : ~IsDigit(line[x]) /\ line[x] # "."} IN
    IF IsBlankLine(line) THEN Skip
    ELSE IF Len(line) >= 2 /\ line[1] = "#"
    THEN IF line[2] \in Markers THEN Skip
         ELSE UnknownMetadata(l + 1, line[2])
    ELSE IF Len(line) # Side
    THEN IncorrectLength(l + 1, Len(line))
    ELSE IF bad # {}
    THEN PuzzleIllegalCellChar(l + 1, Min(bad), line[Min(bad)])
    ELSE Row([x \in 1..Side |-> SdkCell(line[x])])

RECURSIVE SdkFrom(_, _, _, _)
SdkFrom(ls, l, y, rs) ==
    IF l >= Len(ls) THEN ParseOk(<<with_values(rs)>>)
    ELSE LET r == SdkLine(ls[l + 1], l) IN
         IF r.tag = "Skip" THEN SdkFrom(ls, l + 1, y, rs)
         ELSE IF r.tag # "Row" THEN r
         ELSE IF y >= Side THEN PuzzleTooManyRows(l + 1)
         ELSE SdkFrom(ls, l + 1, y + 1, [rs EXCEPT ![y + 1] = r.row])

parse_sudoku_puzzle(text) == SdkFrom(Split(text, "\n"), 0, 0, NoneRows)

\* SudokuPuzzleProgressError
ProgressEmptyCell(l, x) == [tag |-> "EmptyCell", line |-> l, cell |-> x]

ProgressIllegalCellChar(l, x, c) ==
    [tag |-> "IllegalCellChar", line |-> l, col |-> x, got |-> c]

ProgressTooManyRows(l) == [tag |-> "TooManyRows", line |-> l]

ProgressTooManyCols(l) == [tag |-> "TooManyCols", line |-> l]

\* `row[x]` with x >= 9: the index is out of bounds and the thread panics.
IndexPanic == [tag |-> "Panic"]

Cell(v) == [tag |-> "Cell", v |-> v]

Digits(c_chars) == SelectSeq(c_chars, IsDigit)

\* One space-separated token of an .sdx line, x counted from 0.
SdxToken_FirstDigit(c_chars, l, x) ==
    LET bad == {i \in 1..Len(c_chars) :
                   ~IsDigit(c_chars[i]) /\ (i > 1 \/ c_chars[i] # "u")}
        ns  == Digits(c_chars)
    IN  IF Len(c_chars) = 0 THEN ProgressEmptyCell(l + 1, x + 1)
        ELSE IF bad # {}
        THEN ProgressIllegalCellChar(l + 1, x + 1, c_chars[Min(bad)])
        ELSE IF Len(ns) >= 1
        THEN IF x >= Side THEN IndexPanic ELSE Cell(DigitVal(ns[1]))
        ELSE ProgressEmptyCell(l + 1, x + 1)

SdxToken(c_chars, l, x) ==
    LET bad == {i \in 1..Len(c_chars) :
                   ~IsDigit(c_chars[i]) /\ (i > 1 \/ c_chars[i] # "u")}
        ns  == Digits(c_chars)
    IN  IF Len(c_chars) = 0 THEN ProgressEmptyCell(l + 1, x + 1)
        ELSE IF bad # {}
        THEN ProgressIllegalCellChar(l + 1, x + 1, c_chars[Min(bad)])
        ELSE IF Len(ns) = 1
        THEN IF x >= Side THEN IndexPanic ELSE Cell(DigitVal(ns[1]))
        ELSE IF Len(ns) # 0
        THEN IF x >= Side THEN IndexPanic ELSE Cell(None)
        ELSE ProgressEmptyCell(l + 1, x + 1)

SdxLine(line, l) ==
    LET cs    == Split(line, " ")
        res   == [x \in 1..Len(cs) |-> SdxToken(cs[x], l, x - 1)]
        stops == {x \in 1..Len(cs) : res[x].tag # "Cell"}
    IN  IF IsBlankLine(line) THEN Skip
        ELSE IF stops # {} THEN res[Min(stops)]
        ELSE Row([x \in 1..Side |-> IF x <= Len(cs) THEN res[x].v ELSE None])

RECURSIVE SdxFrom(_, _, _, _)
SdxFrom(ls, l, y, rs) ==
    IF l >= Len(ls) THEN ParseOk(<<with_values(rs)>>)
    ELSE LET r == SdxLine(ls[l + 1], l) IN
         IF r.tag = "Skip" THEN SdxFrom(ls, l + 1, y, rs)
         ELSE IF r.tag # "Row" THEN r
         ELSE IF y >= Side THEN ProgressTooManyRows(l + 1)
         ELSE SdxFrom(ls, l + 1, y + 1, [rs EXCEPT ![y + 1] = r.row])

parse_sudoku_puzzle_progress(text) == SdxFrom(Split(text, "\n"), 0, 0, NoneRows)

\* SimpleSudokuNewError
IllegalSeparatorRow(l, g) == [tag |-> "IllegalSeparatorRow", line |-> l, got |-> g]

IllegalSeparatorCol(l, c) == [tag |-> "IllegalSeparatorCol", line |-> l, got |-> c]

SimpleTooManyCols(l) == [tag |-> "TooManyCols", line |-> l]

SimpleTooManyRows(l) == [tag |-> "TooManyRows", line |-> l]

SimpleIllegalCellChar(l, x, c) ==
    [tag |-> "IllegalCellChar", line |-> l, col |-> x, got |-> c]

SeparatorRow == <<"-", "-", "-", "-", "-", "-", "-", "-", "-", "-", "-">>

\* `if x >= 7 { x -= 1; } if x >= 3 { x -= 1; }`
Compensate_Once(x) == IF x >= 3 THEN x - 1 ELSE x

Compensate(x) ==
    LET a == IF x >= 7 THEN x - 1 ELSE x IN
    IF a >= 3 THEN a - 1 ELSE a

\* What the character at raw index x (from 0) of line l does.
SsnChar(c, l, x) ==
    IF x >= 11 THEN SimpleTooManyCols(l + 1)
    ELSE IF x = 3 \/ x = 7
    THEN IF c # "|" THEN IllegalSeparatorCol(l + 1, c) ELSE Skip
    ELSE IF IsDigit(c) THEN Cell(DigitVal(c))
    ELSE IF c # "." THEN SimpleIllegalCellChar(l + 1, Compensate(x) + 1, c)
    ELSE Skip

SsnLine(line, l) ==
    LET res   == [i \in 1..Len(line) |-> SsnChar(line[i], l, i - 1)]
        stops == {i \in 1..Len(line) : res[i].tag # "Cell" /\ res[i].tag # "Skip"}
        set   == [x \in 0..(Side - 1) |->
                     {i \in 1..Len(line) :
                         res[i].tag = "Cell" /\ Compensate(i - 1) = x}]
    IN  IF l = 3 \/ l = 7
        THEN IF line # SeparatorRow THEN IllegalSeparatorRow(l + 1, line)
             ELSE Skip
        ELSE IF stops # {} THEN res[Min(stops)]
        ELSE Row([x \in 1..Side |->
                    IF set[x - 1] = {} THEN None ELSE res[Max(set[x - 1])].v])

RECURSIVE SsnFrom(_, _, _, _)
SsnFrom(ls, l, y, rs) ==
    IF l >= Len(ls) THEN ParseOk(<<with_values(rs)>>)
    ELSE LET r == SsnLine(ls[l + 1], l) IN
         IF r.tag = "Skip" THEN SsnFrom(ls, l + 1, y, rs)
         ELSE IF r.tag # "Row" THEN r
         ELSE IF y >= Side THEN SimpleTooManyRows(l + 1)
         ELSE SsnFrom(ls, l + 1, y + 1, [rs EXCEPT ![y + 1] = r.row])

parse_simple_sudoku_new(text) == SsnFrom(Split(text, "\n"), 0, 0, NoneRows)

\* `todo!()`: the thread panics with "not yet implemented".
TodoPanic == [tag |-> "Todo"]

\* load_sudoku_of_type: the parser of the file's type.
load_sudoku_of_type(text, ftype) ==
    CASE ftype = "sdk" -> parse_sudoku_puzzle(text)
      [] ftype = "sdx" -> parse_sudoku_puzzle_progress(text)
      [] ftype = "sdm" -> parse_sudoku_puzzle_collection(text)
      [] ftype = "ss" -> TodoPanic
      [] ftype = "ss_new" -> parse_simple_sudoku_new(text)
      [] ftype = "ss_old" -> TodoPanic
      [] ftype = "json" -> [tag |-> "Json"]

\* `path.extension()` of a path without one.
NoExtension == "<none>"

\* FileType::from_ext; "<unknown>" stands for None.
NoFileType == "<unknown>"

from_ext_New(e) ==
    CASE e = "json" -> "json"
      [] e = "sdk" -> "sdk"
      [] e = "sdx" -> "sdx"
      [] e = "sdm" -> "sdm"
      [] e = "ss" -> "ss_new"
      [] OTHER -> NoFileType

from_ext(e) ==
    CASE e = "json" -> "json"
      [] e = "sdk" -> "sdk"
      [] e = "sdx" -> "sdx"
      [] e = "sdm" -> "sdm"
      [] e = "ss" -> "ss"
      [] OTHER -> NoFileType

\* load_sudoku: the type is deduced from the extension of the path.
load_sudoku(text, e) ==
    IF e = NoExtension THEN [tag |-> "NoExtension"]
    ELSE IF from_ext(e) = NoFileType THEN [tag |-> "UnknownExtension", ext |-> e]
    ELSE load_sudoku_of_type(text, from_ext(e))

\* The caller gives the type, or leaves it to the extension ("auto").
Load(text, f, e) ==
    IF f = "auto" THEN load_sudoku(text, e) ELSE load_sudoku_of_type(text, f)

ExampleNewCells ==
    <<1, 0, 0, 0, 0, 0, 7, 0, 0,
      0, 2, 0, 0, 0, 0, 5, 0, 0,
      6, 0, 0, 3, 8, 0, 0, 0, 0,
      0, 7, 8, 0, 0, 0, 0, 0, 0,
      0, 0, 0, 6, 0, 9, 0, 0, 0,
      0, 0, 0, 0, 0, 0, 1, 4, 0,
      0, 0, 0, 0, 2, 5, 0, 0, 9,
      0, 0, 3, 0, 0, 0, 0, 6, 0,
      0, 0, 4, 0, 0, 0, 0, 0, 2>>

ExampleCells ==
    <<0, 1, 6, 4, 0, 0, 0, 0, 0,
      2, 0, 0, 0, 0, 9, 0, 0, 0,
      4, 0, 0, 0, 0, 0, 0, 6, 2,
      0, 7, 0, 2, 3, 0, 1, 0, 0,
      1, 0, 0, 0, 0, 0, 0, 0, 3,
      0, 0, 3, 0, 8, 7, 0, 4, 0,
      9, 6, 0, 0, 0, 0, 0, 0, 5,
      0, 0, 0, 8, 0, 0, 0, 0, 7,
      0, 0, 0, 0, 0, 6, 8, 2, 0>>

(***************************************************************************)
(* Files given to the parsers.  A file is written line by line; after      *)
(* every write it is loaded again with the parser of its type.  Regular    *)
(* lines are the rows of the example puzzle; irregular lines are blank     *)
(* lines, metadata, and the malformed rows each parser has an error for.   *)
(***************************************************************************)
MaxRows == 10

MaxGrids == 4

MaxOdd == 2

FileTypes == {"sdk", "sdx", "sdm", "ss", "ss_new", "ss_old"}

Extensions == {"sdk", "sdx", "sdm", "ss", "txt", NoExtension}

MarkerSeq == <<"A", "D", "C", "B", "S", "L", "U">>

\* Row k of the example puzzle as an .sdk row: digits, '.' for a blank.
SdkGood(k) ==
    [x \in 1..Side |->
        LET v == ExampleCells[(k % Side) * Side + x] IN
        IF v = 0 THEN "." ELSE DigitChars[v + 1]]

\* Row k as .sdx tokens: a digit, a digit after 'u', or two candidates.
SdxGoodToken(k, x) ==
    LET v == BaseRows[(k % Side) + 1][x] IN
    CASE (x + k) % 3 = 0 -> <<DigitChars[v + 1]>>
      [] (x + k) % 3 = 1 -> <<"u", DigitChars[v + 1]>>
      [] (x + k) % 3 = 2 -> <<DigitChars[v + 1], DigitChars[(v % Side) + 2]>>

RECURSIVE Join(_, _)
Join(parts, sep) ==
    IF Len(parts) = 0 THEN << >>
    ELSE IF Len(parts) = 1 THEN parts[1]
    ELSE parts[1] \o <<sep>> \o Join(Tail(parts), sep)

SdxGood(k) == Join([x \in 1..Side |-> SdxGoodToken(k, x)], " ")

\* Grid k of a collection: the example puzzle with every digit shifted by k.
SdmGood(k) ==
    [i \in 1..CellCount |-> DigitChars[((ExampleCells[i] + k) % 10) + 1]]

GoodLine(f, k) ==
    CASE f = "sdk" -> SdkGood(k)
      [] f = "sdx" -> SdxGood(k)
      [] f = "sdm" -> SdmGood(k)

\* Irregular .sdk lines.
SdkOdd ==
    { << >>,
      <<" ", "\t">>,
      <<"0", ".", "1", ".", "5", ".", ".", ".", "9">>,
      <<"#", "X">>,
      <<"#">>,
      <<"#", " ", "A">>,
      <<"#", "a">>,
      <<" ", "#", "A">>,
      <<"1", "2", "3", "4", "5", "6", "7", "8">>,
      <<"1", "2", "3", "4", "5", "6", "7", "8", "9", "0">>,
      <<"1", "2", "x", ".", ".", ".", ".", ".", ".">>,
      <<"1", "2", "3", "4", "U+00E9", "6", "7", "8", "9">>,
      <<"x", "2", "3", "4", "5", "6", "7", "8", "9", "0">> }

\* A metadata line; the marker used varies with the position in the file.
SdkMeta(n) == <<"#", MarkerSeq[(n % 7) + 1], " ", "x">>

\* Irregular .sdx lines.
SdxOdd ==
    { << >>,
      <<" ", " ">>,
      <<"0", " ", "u", "2", " ", "3", "4">>,
      <<"1", " ", " ", "2">>,
      <<"1", " ">>,
      <<"u", " ", "1">>,
      <<"1", "u", " ", "2">>,
      <<"u", "u", "1">>,
      <<"x", " ", "1">>,
      <<"1", " ", "U+00E9">>,
      <<"1", " ", "2", " ", "3", " ", "4", " ", "5", " ", "6", " ", "7", " ", "8", " ", "9", " ", "1">>,
      <<"1", " ", "2", " ", "3", " ", "4", " ", "5", " ", "6", " ", "7", " ", "8", " ", "9", " ", "1", "2">>,
      <<"1", " ", "2", " ", "3", " ", "4", " ", "5", " ", "6", " ", "7", " ", "8", " ", "9", " ">>,
      <<"1", " ", "2", " ", "3", " ", "4", " ", "5", " ", "6", " ", "7", " ", "8", " ", "9", " ", "x">> }

\* Irregular .sdm lines, made from the grid that would come next.
SdmOdd(k) ==
    { << >>,
      <<" ">>,
      SubSeq(SdmGood(k), 1, CellCount - 1),
      SdmGood(k) \o <<"0">>,
      [SdmGood(k) EXCEPT ![5] = "."],
      [SdmGood(k) EXCEPT ![CellCount] = "U+00E9"],
      [SdmGood(k) EXCEPT ![1] = "x"] \o <<"0">> }

\* Line l (from 0) of the example puzzle as a Simple Sudoku block.
SsnGood(l) ==
    IF l = 3 \/ l = 7 THEN SeparatorRow
    ELSE LET r == (l - (IF l > 3 THEN 1 ELSE 0) - (IF l > 7 THEN 1 ELSE 0)) % Side
         IN  [i \in 1..11 |->
                IF i = 4 \/ i = 8 THEN "|"
                ELSE LET x == IF i < 4 THEN i - 1 ELSE IF i < 8 THEN i - 2 ELSE i - 3
                         v == ExampleNewCells[r * Side + x + 1]
                     IN
                     IF v = 0 THEN "." ELSE DigitChars[v + 1]]

\* Irregular Simple Sudoku lines.
SsnOdd ==
    { << >>,
      <<"1", "2", "3", "|", "4", "5", "6">>,
      <<"0", ".", "1", "|", ".", "5", ".", "|", ".", ".", "9">>,
      <<"-", "-", "-", "-", "-", "-", "-", "-", "-", "-", "-">>,
      <<"-", "-", "-", "-", "-", "-", "-", "-", "-", "-">>,
      <<"1", "2", "3", "x", "4", "5", "6", "|", "7", "8", "9">>,
      <<"1", "2", "3", "|", "4", "5", "6", "x", "7", "8", "9">>,
      <<"1", "x", "3", "|", "4", "5", "6", "|", "7", "8", "9">>,
      <<"1", "2", "3", "|", "4", "x", "6", "|", "7", "8", "9">>,
      <<"1", "2", "3", "|", "4", "5", "6", "|", "7", "8", "x">>,
      <<"1", "2", "3", "|", "4", "5", "6", "|", "7", "8", "9", "1">>,
      <<"1", "2", "3", "|", "4", "5", "6", "|", "7", "8", "U+00E9">> }

\* The format in which the lines of the file are written.
LineType(f, e) ==
    IF f = "auto"
    THEN IF e \in {"sdk", "sdx", "sdm"} THEN e ELSE "ss_new"
    ELSE IF f \in {"ss", "ss_old"} THEN "ss_new" ELSE f

\* The regular line that comes after k regular lines and n lines in all.
NextLine(f, k, n) == IF f = "ss_new" THEN SsnGood(n) ELSE GoodLine(f, k)

OddLines(f, k, n) ==
    CASE f = "sdk" -> SdkOdd \cup {SdkMeta(n)}
      [] f = "sdx" -> SdxOdd
      [] f = "sdm" -> SdmOdd(k)
      [] f = "ss_new" -> SsnOdd

LineLimit(f) ==
    CASE f = "sdm" -> MaxGrids
      [] f = "ss_new" -> MaxRows + 2
      [] OTHER -> MaxRows

Loaded(f, e, ls, g, o) ==
    /\ fmt = f
    /\ ext = e
    /\ lines = ls
    /\ raw = Join(ls, "\n")
    /\ nGood = g
    /\ nOdd = o
    /\ pres = Load(Join(ls, "\n"), f, e)

ParseInitAs(f, e) ==
    /\ \/ Loaded(f, e, <<NextLine(LineType(f, e), 0, 0)>>, 1, 0)
       \/ \E line \in OddLines(LineType(f, e), 0, 0) : Loaded(f, e, <<line>>, 0, 1)
    /\ SolverIdle
    /\ GridIdle
    /\ EngineIdle

\* A file of type f under a path with the extension of that type.
ParseInit(f) == ParseInitAs(f, IF f = "ss_new" THEN "ss" ELSE f)

\* Append the next regular line to the file and load the file again.
WriteLine ==
    /\ fmt \in FileTypes \cup {"auto"}
    /\ nGood < LineLimit(LineType(fmt, ext))
    /\ lines' = Append(lines, NextLine(LineType(fmt, ext), nGood, Len(lines)))
    /\ raw' = raw \o <<"\n">> \o NextLine(LineType(fmt, ext), nGood, Len(lines))
    /\ nGood' = nGood + 1
    /\ pres' = Load(raw', fmt, ext)
    /\ UNCHANGED <<fmt, ext, nOdd>>
    /\ UNCHANGED solverVars
    /\ UNCHANGED gridVars
    /\ UNCHANGED engineVars

\* Append an irregular line to a file that still loads, and load it again.
WriteOdd ==
    /\ fmt \in FileTypes \cup {"auto"}
    /\ nOdd < MaxOdd
    /\ pres.tag = "Ok"
    /\ \E line \in OddLines(LineType(fmt, ext), nGood, Len(lines)) :
          /\ lines' = Append(lines, line)
          /\ raw' = raw \o <<"\n">> \o line
    /\ nOdd' = nOdd + 1
    /\ pres' = Load(raw', fmt, ext)
    /\ UNCHANGED <<fmt, ext, nGood>>
    /\ UNCHANGED solverVars
    /\ UNCHANGED gridVars
    /\ UNCHANGED engineVars

ParseNext == WriteLine \/ WriteOdd

SdmInit == ParseInit("sdm")

SdmSpec == SdmInit /\ [][ParseNext]_vars

SdkInit == ParseInit("sdk")

SdkSpec == SdkInit /\ [][ParseNext]_vars

SdxInit == ParseInit("sdx")

SdxSpec == SdxInit /\ [][ParseNext]_vars

SsnInit == ParseInit("ss_new")

SsnSpec == SsnInit /\ [][ParseNext]_vars

\* Files loaded as Simple Sudoku, or by the extension of their path.
LoadInit ==
    \/ \E f \in {"ss", "ss_old"} : ParseInitAs(f, "ss")
    \/ \E e \in {"ss", "sdm", "txt", NoExtension} : ParseInitAs("auto", e)

LoadSpec == LoadInit /\ [][ParseNext]_vars

-----------------------------------------------------------------------------
(* What the file formats mean, stated over the lines written to the file. *)

\* the value a digit character stands for
CharDigit ==
    ("0" :> 0) @@ ("1" :> 1) @@ ("2" :> 2) @@ ("3" :> 3) @@ ("4" :> 4) @@
    ("5" :> 5) @@ ("6" :> 6) @@ ("7" :> 7) @@ ("8" :> 8) @@ ("9" :> 9)

FirstIn(S) == CHOOSE m \in S : \A n \in S : m <= n

ParseFailed == pres.tag # "Ok" /\ pres.tag # "Panic" /\ pres.tag # "Pending"

\* a line of 81 digit characters
SdmLineOk(line) ==
    Len(line) = 81 /\ \A i \in 1..Len(line) : line[i] \in DOMAIN CharDigit

\* character i (0-based) of `line` is what grid `g` has in row i/9, column i%9
SdmDecodes(line, g) ==
    \A i \in 0..80 :
        g.rows[i \div 9][i % 9] =
            IF CharDigit[line[i + 1]] = 0 THEN None ELSE CharDigit[line[i + 1]]

\* C15: an .sdm line of exactly 81 characters '0'-'9' becomes the grid that
\* has character i (0-based) in row i/9, column i%9, blank for '0' and the
\* value for '1'-'9'; a line with another cell count (TooManyCells) or another
\* character (IllegalCellChar) fails the whole parse with the 1-indexed
\* number of that line.
C15_SdmLineDecoded ==
    fmt = "sdm" =>
        LET bad == {j \in 1..Len(lines) : ~SdmLineOk(lines[j])} IN
        IF bad = {}
        THEN /\ pres.tag = "Ok"
             /\ Len(pres.sudokus) = Len(lines)
             /\ \A j \in 1..Len(lines) : SdmDecodes(lines[j], pres.sudokus[j])
        ELSE /\ ParseFailed
             /\ pres.line = FirstIn(bad)
             /\ pres.tag = IF Len(lines[FirstIn(bad)]) # 81
                           THEN "TooManyCells" ELSE "IllegalCellChar"

C15_Witness ==
    /\ fmt = "sdm" /\ Len(lines) = 2 /\ pres.tag = "Ok"
    /\ lines[2][1] = "1" /\ lines[2][3] = "7"
    /\ pres.sudokus[1].rows[0][0] = None
    /\ pres.sudokus[1].rows[8][7] = 2
    /\ pres.sudokus[2].rows[0][0] = 1
    /\ pres.sudokus[2].rows[0][2] = 7

NonEmptyLines == SelectSeq(lines, LAMBDA line : Len(line) > 0)

\* C16: the .sdm parser returns one grid per non-empty line, in line order;
\* an empty line, the empty last segment of a file that ends with a newline
\* included, gives no grid and does not fail the parse.
C16_SdmSkipsEmptyLines ==
    (fmt = "sdm" /\ \A j \in 1..Len(NonEmptyLines) : SdmLineOk(NonEmptyLines[j]))
        => /\ pres.tag = "Ok"
           /\ Len(pres.sudokus) = Len(NonEmptyLines)
           /\ \A j \in 1..Len(NonEmptyLines) :
                 SdmDecodes(NonEmptyLines[j], pres.sudokus[j])

\* .sdk lines by kind: skipped, unknown metadata, or a row of the grid
SdkSkippable(line) ==
    \/ \A i \in 1..Len(line) : line[i] \in {" ", "\t", "\r"}
    \/ /\ Len(line) >= 2
       /\ line[1] = "#"
       /\ line[2] \in {"A", "D", "C", "B", "S", "L", "U"}

SdkUnknownMeta(line) ==
    ~SdkSkippable(line) /\ Len(line) >= 2 /\ line[1] = "#"

SdkRowLine(line) == ~SdkSkippable(line) /\ ~SdkUnknownMeta(line)

SdkRowOk(line) ==
    Len(line) = 9 /\ \A x \in 1..Len(line) : line[x] \in DOMAIN CharDigit \cup {"."}

\* the positions in the file of its rows, in order
SdkRowsAt == SelectSeq([j \in 1..Len(lines) |-> j], LAMBDA j : SdkRowLine(lines[j]))

SdkRowsUpTo(j) == Cardinality({i \in 1..j : SdkRowLine(lines[i])})

\* the lines at which a parse of the file cannot go on
SdkFails ==
    {j \in 1..Len(lines) :
        \/ SdkUnknownMeta(lines[j])
        \/ SdkRowLine(lines[j]) /\ (~SdkRowOk(lines[j]) \/ SdkRowsUpTo(j) > 9)}

\* the step appends a line the .sdk parser is to skip
SkippableWritten ==
    /\ fmt = "sdk"
    /\ Len(lines') = Len(lines) + 1
    /\ SdkSkippable(lines'[Len(lines')])

\* C17: the .sdk parser skips whitespace-only lines and lines that start
\* with '#' and one of A, D, C, B, S, L, U: such a line contributes no row,
\* so writing one leaves the result as it was; a line that starts with '#'
\* and any other character fails the parse with UnknownMetadata, the
\* 1-indexed number of the line and the marker.
C17_SdkMetadata ==
    /\ [](fmt = "sdk" /\ SdkFails # {} /\ SdkUnknownMeta(lines[FirstIn(SdkFails)])
            => pres = [tag    |-> "UnknownMetadata",
                       line   |-> FirstIn(SdkFails),
                       marker |-> lines[FirstIn(SdkFails)][2]])
    /\ [][SkippableWritten => pres' = pres]_vars

C17_Witness ==
    /\ fmt = "sdk" /\ Len(lines) = 3
    /\ lines[1] = <<"#", "A", " ", "x">>
    /\ SdkRowOk(lines[2])
    /\ lines[3] = <<"#", "X">>
    /\ pres = [tag |-> "UnknownMetadata", line |-> 3, marker |-> "X"]

\* C18: the .sdk parser returns a grid only for a file with exactly 9 rows
\* (lines that are neither blank nor metadata): a 10th row fails with
\* TooManyRows and its 1-indexed line number, and a file with fewer than 9
\* rows yields no grid.
C18_SdkExactlyNineRows ==
    fmt = "sdk" =>
        /\ pres.tag = "Ok" => Len(SdkRowsAt) = 9
        /\ (/\ SdkFails # {}
            /\ SdkRowLine(lines[FirstIn(SdkFails)])
            /\ SdkRowOk(lines[FirstIn(SdkFails)]))
              => pres = [tag |-> "TooManyRows", line |-> FirstIn(SdkFails)]

\* what an .sdk character puts in its cell
SdkCellOf(c) == IF c = "." THEN None ELSE CharDigit[c]

FirstBadCol(line) ==
    FirstIn({x \in 1..Len(line) : line[x] \notin DOMAIN CharDigit \cup {"."}})

\* C19: an .sdk row has exactly 9 characters, else the parse fails with
\* IncorrectLength; the k-th row read fills grid row k, '.' as a blank cell
\* and a digit '0'-'9' as that value, 0 included; any other character fails
\* with IllegalCellChar and the 1-indexed line and column.
C19_SdkRowDecoded ==
    fmt = "sdk" =>
        /\ pres.tag = "Ok" =>
              \A k \in 1..Len(SdkRowsAt) : \A x \in 1..9 :
                  pres.sudokus[1].rows[k - 1][x - 1]
                      = SdkCellOf(lines[SdkRowsAt[k]][x])
        /\ (SdkFails # {} /\ SdkRowLine(lines[FirstIn(SdkFails)])) =>
              LET j    == FirstIn(SdkFails)
                  line == lines[j]
              IN  /\ Len(line) # 9 =>
                        pres = [tag |-> "IncorrectLength", line |-> j,
                                got |-> Len(line)]
                  /\ (Len(line) = 9 /\ ~SdkRowOk(line)) =>
                        pres = [tag |-> "IllegalCellChar", line |-> j,
                                col |-> FirstBadCol(line),
                                got |-> line[FirstBadCol(line)]]

C19_Witness ==
    /\ fmt = "sdk" /\ Len(lines) = 3 /\ pres.tag = "Ok"
    /\ lines[1] = <<"0", ".", "1", ".", "5", ".", ".", ".", "9">>
    /\ lines[2] = <<"#", "D", " ", "x">>
    /\ SdkRowOk(lines[3])
    /\ pres.sudokus[1].rows[0][0] = 0
    /\ pres.sudokus[1].rows[0][1] = None
    /\ pres.sudokus[1].rows[0][8] = 9
    /\ pres.sudokus[1].rows[1][1] = 1
    /\ pres.sudokus[1].rows[1][0] = None

\* .sdx tokens by kind
TokenDigits(t) == {i \in 1..Len(t) : t[i] \in DOMAIN CharDigit}

TokenIllegal(t) ==
    {i \in 1..Len(t) : t[i] \notin DOMAIN CharDigit /\ ~(i = 1 /\ t[i] = "u")}

TokenBad(t) == TokenIllegal(t) # {} \/ TokenDigits(t) = {}

SdxBlank(line) == \A i \in 1..Len(line) : line[i] \in {" ", "\t", "\r"}

Tokens(line) == Split(line, " ")

SdxRowsAt == SelectSeq([j \in 1..Len(lines) |-> j], LAMBDA j : ~SdxBlank(lines[j]))

\* the tokens of a line at which the parser cannot go on: a token that is
\* no cell, or a token past the ninth
SdxStops(line) ==
    {x \in 1..Len(Tokens(line)) : TokenBad(Tokens(line)[x]) \/ x > 9}

SdxFails ==
    {j \in 1..Len(lines) :
        /\ ~SdxBlank(lines[j])
        /\ \/ SdxStops(lines[j]) # {}
           \/ Cardinality({i \in 1..j : ~SdxBlank(lines[i])}) > 9}

\* C20: an .sdx token of exactly one digit, after a single leading 'u' or
\* not, sets its cell to that digit; a token of two or more digits gives a
\* blank cell; a token with no digit (empty, or a lone 'u') fails with
\* EmptyCell; a 'u' that is not first, or any other character that is no
\* digit, fails with IllegalCellChar.
C20_SdxTokenDecoded ==
    fmt = "sdx" =>
        /\ pres.tag = "Ok" =>
              \A k \in 1..Len(SdxRowsAt) :
                  LET ts == Tokens(lines[SdxRowsAt[k]]) IN
                  \A x \in 1..Len(ts) :
                      pres.sudokus[1].rows[k - 1][x - 1] =
                          IF Cardinality(TokenDigits(ts[x])) = 1
                          THEN CharDigit[ts[x][FirstIn(TokenDigits(ts[x]))]]
                          ELSE None
        /\ (SdxFails # {} /\ SdxStops(lines[FirstIn(SdxFails)]) # {}) =>
              LET j == FirstIn(SdxFails)
                  x == FirstIn(SdxStops(lines[j]))
                  t == Tokens(lines[j])[x]
              IN  /\ (TokenBad(t) /\ TokenIllegal(t) = {}) =>
                        pres = [tag |-> "EmptyCell", line |-> j, cell |-> x]
                  /\ TokenIllegal(t) # {} =>
                        pres = [tag |-> "IllegalCellChar", line |-> j,
                                col |-> x, got |-> t[FirstIn(TokenIllegal(t))]]

C20_Witness ==
    /\ fmt = "sdx" /\ Len(lines) = 3 /\ pres.tag = "Ok"
    /\ lines[1] = <<"0", " ", "u", "2", " ", "3", "4">>
    /\ lines[2] = << >>
    /\ Len(Tokens(lines[3])) = 9
    /\ pres.sudokus[1].rows[0][0] = 0
    /\ pres.sudokus[1].rows[0][1] = 2
    /\ pres.sudokus[1].rows[0][2] = None
    /\ lines[3][1] = "u"
    /\ pres.sudokus[1].rows[1][0] = 1
    /\ pres.sudokus[1].rows[1][1] = None
    /\ pres.sudokus[1].rows[1][2] = 3

\* C21: the .sdx parser returns an error value, never a crash and never a
\* grid, for a line with more than 9 cells (TooManyCols with the 1-indexed
\* line) and for a file with more than 9 non-blank lines (TooManyRows with
\* the 1-indexed line of the tenth).
C21_SdxTooManyColsOrRows ==
    (fmt = "sdx" /\ SdxFails # {}) =>
        LET j == FirstIn(SdxFails) IN
        /\ pres.tag # "Panic" /\ pres.tag # "Ok"
        /\ (/\ SdxStops(lines[j]) # {}
            /\ ~TokenBad(Tokens(lines[j])[FirstIn(SdxStops(lines[j]))]))
              => pres = [tag |-> "TooManyCols", line |-> j]
        /\ SdxStops(lines[j]) = {}
              => pres = [tag |-> "TooManyRows", line |-> j]

\* Simple Sudoku lines: those at 0-indexed positions 3 and 7 are separators
SsnSeparatorAt(j) == j = 4 \/ j = 8

\* the raw position (from 0) of each logical column 0..8
RawCols == <<0, 1, 2, 4, 5, 6, 8, 9, 10>>

SsnRowsAt ==
    SelectSeq([j \in 1..Len(lines) |-> j], LAMBDA j : ~SsnSeparatorAt(j))

\* the raw positions (from 0) of a row at which the parser cannot go on
SsnBadAt(line) ==
    {i \in 0..(Len(line) - 1) :
        \/ i >= 11
        \/ (i = 3 \/ i = 7) /\ line[i + 1] # "|"
        \/ i # 3 /\ i # 7 /\ line[i + 1] \notin DOMAIN CharDigit \cup {"."}}

SsnFails ==
    {j \in 1..Len(lines) :
        IF SsnSeparatorAt(j)
        THEN lines[j] # <<"-", "-", "-", "-", "-", "-", "-", "-", "-", "-", "-">>
        ELSE \/ SsnBadAt(lines[j]) # {}
             \/ Cardinality({i \in 1..j : ~SsnSeparatorAt(i)}) > 9}

\* C22: in a Simple Sudoku (new style) file the lines at 0-indexed positions
\* 3 and 7 must be "-----------", else IllegalSeparatorRow, and give no row;
\* in every other line raw positions 3 and 7 must be '|', else
\* IllegalSeparatorCol, and raw positions 0,1,2,4,5,6,8,9,10 are the logical
\* columns 0..8 in order, a digit setting the cell and '.' leaving it blank.
C22_SsnBlockDecoded ==
    fmt = "ss_new" =>
        /\ pres.tag = "Ok" =>
              \A k \in 1..Len(SsnRowsAt) : \A x \in 0..8 :
                  RawCols[x + 1] < Len(lines[SsnRowsAt[k]]) =>
                      pres.sudokus[1].rows[k - 1][x]
                          = SdkCellOf(lines[SsnRowsAt[k]][RawCols[x + 1] + 1])
        /\ (SsnFails # {} /\ SsnSeparatorAt(FirstIn(SsnFails))) =>
              pres = [tag |-> "IllegalSeparatorRow", line |-> FirstIn(SsnFails),
                      got |-> lines[FirstIn(SsnFails)]]
        /\ (/\ SsnFails # {}
            /\ ~SsnSeparatorAt(FirstIn(SsnFails))
            /\ SsnBadAt(lines[FirstIn(SsnFails)]) # {}
            /\ FirstIn(SsnBadAt(lines[FirstIn(SsnFails)])) \in {3, 7}) =>
              pres = [tag |-> "IllegalSeparatorCol", line |-> FirstIn(SsnFails),
                      got |-> lines[FirstIn(SsnFails)]
                                   [FirstIn(SsnBadAt(lines[FirstIn(SsnFails)])) + 1]]

C22_Witness ==
    /\ fmt = "ss_new" /\ Len(lines) = 11 /\ pres.tag = "Ok"
    /\ lines[1] = <<"0", ".", "1", "|", ".", "5", ".", "|", ".", ".", "9">>
    /\ pres.sudokus[1].rows[0][0] = 0
    /\ pres.sudokus[1].rows[0][3] = None
    /\ pres.sudokus[1].rows[0][4] = 5
    /\ pres.sudokus[1].rows[0][8] = 9
    /\ pres.sudokus[1].rows[3][1] = 7
    /\ pres.sudokus[1].rows[8][8] = 2

\* C23: in a Simple Sudoku (new style) file every line that is no separator
\* must be exactly 11 characters long: a longer line fails with TooManyCols,
\* a shorter line yields no grid, and more than 9 grid rows fail with
\* TooManyRows.
C23_SsnRowLength ==
    fmt = "ss_new" =>
        /\ pres.tag = "Ok" =>
              \A k \in 1..Len(SsnRowsAt) : Len(lines[SsnRowsAt[k]]) = 11
        /\ (/\ SsnFails # {}
            /\ ~SsnSeparatorAt(FirstIn(SsnFails))
            /\ SsnBadAt(lines[FirstIn(SsnFails)]) # {}
            /\ FirstIn(SsnBadAt(lines[FirstIn(SsnFails)])) >= 11) =>
              pres = [tag |-> "TooManyCols", line |-> FirstIn(SsnFails)]
        /\ (/\ SsnFails # {}
            /\ ~SsnSeparatorAt(FirstIn(SsnFails))
            /\ SsnBadAt(lines[FirstIn(SsnFails)]) = {}) =>
              pres = [tag |-> "TooManyRows", line |-> FirstIn(SsnFails)]

-----------------------------------------------------------------------------
(* src/engine.rs: Engine::solve drives the solver over a list of sudokus.  *)
(* Its callback draws the candidate and polls the keyboard: it continues,  *)
(* stops when 'q' was pressed, or fails with FrameDraw or KeyDetect.       *)

MaxSudokus == 3

\* the sudokus a list may hold: two with a unique solution out of Base, one
\* out of Mirror, and one that is not well-formed
EngineInputs ==
    { Blanked({1}), Blanked({1, 2}), WithCell(Mirror, 0, 0, None),
      WithCell(Base, 8, 8, 3) }

EngineOk(vec) == [tag |-> "Ok", list |-> vec]

EngineErr(e) == [tag |-> "Err", err |-> e]

EngineInit ==
    /\ entry = "engine" /\ input = empty /\ pc = "next"
    /\ best = InitBest(empty) /\ search_space = << >> /\ attempt = empty
    /\ ret = Pending /\ solved = Pending
    /\ nPops = 0 /\ cbLog = << >> /\ callsThis = 0 /\ bookThis = FALSE
    /\ pushedThis = 0 /\ maxWf = -1 /\ cbArg = empty
    /\ sudokus \in UNION {[1..n -> EngineInputs] : n \in 0..MaxSudokus}
    /\ given = << >> /\ results = << >> /\ solutions = << >>
    /\ eret = [tag |-> "Pending"]
    /\ GridIdle
    /\ ParseIdle

\* `for (name, sudoku) in sudokus`: the next sudoku goes to run_with_callback
EngineCall ==
    /\ pc = "next"
    /\ Len(given) < Len(sudokus)
    /\ LET sudoku == sudokus[Len(given) + 1] IN
        /\ input' = sudoku
        /\ best' = InitBest(sudoku)
        /\ search_space' = <<sudoku>>
        /\ attempt' = sudoku
        /\ cbArg' = sudoku
        /\ given' = Append(given, sudoku)
    /\ ret' = Pending
    /\ nPops' = 0 /\ cbLog' = << >> /\ callsThis' = 0 /\ bookThis' = FALSE
    /\ pushedThis' = 0 /\ maxWf' = -1
    /\ pc' = "loop"
    /\ UNCHANGED <<entry, solved, sudokus, results, solutions, eret>>
    /\ UNCHANGED gridVars
    /\ UNCHANGED parseVars

\* EngineCollect that goes on with the next sudoku after a cancelled one
EngineCollect_SkipNone ==
    /\ pc = "returned"
    /\ entry = "engine"
    /\ results' = Append(results, ret)
    /\ CASE ret.tag = "Err" ->
              eret' = EngineErr(ret.err) /\ pc' = "done" /\ solutions' = solutions
         [] ret.tag = "OkSome" ->
              solutions' = Append(solutions, ret.grid) /\ pc' = "next" /\ eret' = eret
         [] ret.tag = "OkNone" ->
              solutions' = solutions /\ pc' = "next" /\ eret' = eret
    /\ UNCHANGED <<entry, input, best, search_space, attempt, ret, solved,
                   nPops, cbLog, callsThis, bookThis, pushedThis, maxWf, cbArg>>
    /\ UNCHANGED <<sudokus, given>>
    /\ UNCHANGED gridVars
    /\ UNCHANGED parseVars

\* `})?;` and `match solution { Some(..) => push, None => return Ok(solutions) }`
EngineCollect ==
    /\ pc = "returned"
    /\ entry = "engine"
    /\ results' = Append(results, ret)
    /\ CASE ret.tag = "Err" ->
              eret' = EngineErr(ret.err) /\ pc' = "done" /\ solutions' = solutions
         [] ret.tag = "OkSome" ->
              solutions' = Append(solutions, ret.grid) /\ pc' = "next" /\ eret' = eret
         [] ret.tag = "OkNone" ->
              eret' = EngineOk(solutions) /\ pc' = "done" /\ solutions' = solutions
    /\ UNCHANGED <<entry, input, best, search_space, attempt, ret, solved,
                   nPops, cbLog, callsThis, bookThis, pushedThis, maxWf, cbArg>>
    /\ UNCHANGED <<sudokus, given>>
    /\ UNCHANGED gridVars
    /\ UNCHANGED parseVars

\* the list is through: `Ok(solutions)`
EngineDone ==
    /\ pc = "next"
    /\ Len(given) = Len(sudokus)
    /\ eret' = EngineOk(solutions)
    /\ pc' = "done"
    /\ UNCHANGED <<entry, input, best, search_space, attempt, ret, solved,
                   nPops, cbLog, callsThis, bookThis, pushedThis, maxWf, cbArg>>
    /\ UNCHANGED <<sudokus, given, results, solutions>>
    /\ UNCHANGED gridVars
    /\ UNCHANGED parseVars

EngineNext ==
    \/ EngineCall
    \/ Pop
    \/ Exhausted
    \/ Discard
    \/ Bookkeep
    \/ Break
    \/ NotFinished
    \/ Callback
    \/ Expand
    \/ Return
    \/ EngineCollect
    \/ EngineDone

EngineSpec == EngineInit /\ [][EngineNext]_vars

\* grid t has every filled cell of grid s
Extends(t, s) ==
    \A y \in Idx : \A x \in Idx : s.rows[y][x] # None => t.rows[y][x] = s.rows[y][x]

\* the first sudoku during which the callback cancelled or failed, if any
StoppedAt == {k \in 1..Len(results) : results[k].tag # "OkSome"}

-----------------------------------------------------------------------------
(* The solver's frame, termination and invariants *)

\* C26: a popped candidate that is not well-formed is discarded with no
\* effect: nothing is pushed, the callback is not invoked, the best attempt
\* stays; so for an ill-formed input the solver raises no error, never
\* invokes the callback and returns the input unchanged.
C26_IllFormedDiscarded ==
    /\ [][(pc = "wf" /\ ~NoDuplicate(attempt)) =>
            (pc' = "loop" /\ (UNCHANGED <<search_space, best, cbLog, cbArg, ret>>))]_vars
    /\ []((nPops > 0 /\ ~NoDuplicate(attempt)) =>
            (callsThis = 0 /\ pushedThis = 0 /\ ~bookThis))
    /\ []((~NoDuplicate(input) /\ Returned) =>
            (ret = OkSome(input) /\ cbLog = << >> /\ nPops = 1))
    /\ []((~NoDuplicate(input) /\ pc = "done") => solved = Solved(input))

C26_Witness ==
    /\ pc = "returned" /\ ~NoDuplicate(input) /\ input # empty
    /\ ret = OkSome(input) /\ cbLog = << >> /\ nPops = 1

\* the candidates the step pushes
Pushed == SubSeq(search_space', Len(search_space) + 1, Len(search_space'))

\* C27: expanding a candidate branches on one cell only, its first empty
\* cell in row-major order: every child pushed equals the parent in the 80
\* other cells and holds there a digit v of 1..9 with is_cell_valid(x, y, v),
\* there is one child for each such digit, and none for a later empty cell.
C27_ExpandFirstEmptyOnly ==
    [][pc = "expand" =>
        LET k == Min(EmptyAt(attempt)) IN
        /\ SubSeq(search_space', 1, Len(search_space)) = search_space
        /\ \A i \in 1 .. Len(Pushed) :
              /\ ValAt(Pushed[i], k) \in 1 .. 9
              /\ is_cell_valid(attempt, CellX(k), CellY(k), ValAt(Pushed[i], k))
              /\ \A c \in 0 .. 80 : c # k => ValAt(Pushed[i], c) = ValAt(attempt, c)
        /\ \A v \in 1 .. 9 :
              Cardinality({i \in 1 .. Len(Pushed) : ValAt(Pushed[i], k) = v})
                  = IF is_cell_valid(attempt, CellX(k), CellY(k), v) THEN 1 ELSE 0]_vars

C27_Witness ==
    /\ pc = "loop" /\ pushedThis >= 2 /\ nPops >= 2
    /\ Cardinality(EmptyAt(attempt)) >= 3
    /\ Len(search_space) > pushedThis

\* C28: with a callback that always continues run_with_callback terminates:
\* every child pushed has exactly one more filled cell than its parent, and
\* the loop is left with the stack empty or with a finished candidate popped.
C28_Terminates ==
    /\ <>Returned
    /\ [](entry = "run" => <>(pc = "done" /\ ret.tag = "OkSome"))
    /\ [][pc = "expand" =>
            \A i \in 1 .. Len(Pushed) : score(Pushed[i]) = score(attempt) + 1]_vars
    /\ [](pc = "return" => (search_space = << >> \/ is_finished(attempt)))

C28_Witness ==
    /\ entry = "run" /\ pc = "done" /\ ret.tag = "OkSome"
    /\ search_space = << >> /\ ~is_finished(attempt) /\ nPops >= 3

\* C29: the solver never changes or clears a given: every candidate on the
\* stack, every grid passed to the callback, the best attempt recorded and
\* the grid returned hold the input's value in each cell the input has filled.
C29_GivensKept ==
    /\ \A i \in 1 .. Len(search_space) : Extends(search_space[i], input)
    /\ Extends(attempt, input)
    /\ Extends(cbArg, input)
    /\ Extends(best[2], input)
    /\ ret.tag = "OkSome" => Extends(ret.grid, input)
    /\ solved.tag = "Sudoku" => Extends(solved.grid, input)

C29_Witness ==
    /\ pc = "returned" /\ ret.tag = "OkSome" /\ ret.grid # input
    /\ input # empty /\ nCalls >= 2 /\ search_space # << >>

\* C30: for a well-formed input the grid returned, when one is returned, is
\* well-formed and so is every grid passed to the callback, while candidates
\* that wait on the stack may be ill-formed.
C30_WellFormedOut ==
    NoDuplicate(input) =>
        /\ ret.tag = "OkSome" => NoDuplicate(ret.grid)
        /\ solved.tag = "Sudoku" => NoDuplicate(solved.grid)
        /\ NoDuplicate(cbArg)
        /\ NoDuplicate(best[2])

C30_Witness ==
    /\ NoDuplicate(input) /\ pc = "returned" /\ ret.tag = "OkSome"
    /\ nCalls >= 1
    /\ \E i \in 1 .. Len(search_space) : ~NoDuplicate(search_space[i])

====
